---- MODULE Spec2Model ----
(***************************************************************************)
(* A model of gifcm (src/src/gifcm/animated_figure.py): AnimatedFigure,    *)
(* the Frame context manager and the gif writer _save_frames_to_gif with   *)
(* its joint quantization _quantize_frames.                                *)
(*                                                                         *)
(* An array is a record [shape, pix]: shape is the numpy shape tuple and   *)
(* pix the rows of the array, every pixel one colour id (an id stands for  *)
(* the channel values of the pixel).  A path is a sequence of characters.  *)
(***************************************************************************)
EXTENDS Integers, Sequences, FiniteSets, TLC

VARIABLES figure, frames, scopes, files, op, result

vars == <<figure, frames, scopes, files, op, result>>

----------------------------------------------------------------------------
(* Bounds of the model *)

\* the number of captures (Frame.__exit__ calls) a behaviour makes
MaxFrames == 2

\* the number of Frame objects a behaviour creates
MaxScopes == 1

(* Program constants *)

\* quantize(colors=256, ...)
QuantColors == 256

\* save_gif(..., duration: int = 100, ...)
DefaultDuration == 100

\* save_gif(..., loop: int = 0)
DefaultLoop == 0

----------------------------------------------------------------------------
(* The values the caller supplies *)

\* the things a caller draws; mark m paints column m of the raster with colour m
Marks == {1}

\* (rows, cols, channels) of the raster of the figure, set by the caller's layout
Layouts == { <<2, 2, 4>>, <<2, 3, 4>> }

GifPath == <<"a", ".", "g", "i", "f">>
PngPath == <<"a", ".", "p", "n", "g">>
UpperPath == <<"a", ".", "G", "I", "F">>
GifsPath == <<"a", ".", "g", "i", "f", "s">>

Paths == {GifPath, PngPath, UpperPath, GifsPath}

Durations == {DefaultDuration}

Loops == {DefaultLoop, DefaultLoop + 1}

\* the errors of _save_frames_to_gif (all ValueError, told apart by message)
\* and the failure of a with body
NoError == "none"
EmptyAnimation == "EmptyAnimation"
InvalidFrameRank == "InvalidFrameRank"
InconsistentFrameShape == "InconsistentFrameShape"
InvalidDestinationPath == "InvalidDestinationPath"
BodyError == "BodyError"

----------------------------------------------------------------------------
(* str.endswith *)

EndsWithAnywhere(s, suffix) ==
    \E k \in 1..Len(s) :
        /\ k + Len(suffix) - 1 <= Len(s)
        /\ SubSeq(s, k, k + Len(suffix) - 1) = suffix

EndsWith(s, suffix) ==
    /\ Len(s) >= Len(suffix)
    /\ SubSeq(s, Len(s) - Len(suffix) + 1, Len(s)) = suffix

GifSuffix == <<".", "g", "i", "f">>

----------------------------------------------------------------------------
(* The figure: figure.clf() and the raster of figure.savefig *)

Clf(fig) == [fig EXCEPT !.content = {}]

Pixel(content, j) == IF j \in content THEN j ELSE 0

\* _save_figure_to_array: the png of the figure read back as an array
SaveFigureToArray(fig) ==
    [shape |-> fig.layout,
     pix |-> [i \in 1..fig.layout[1] |->
                [j \in 1..fig.layout[2] |-> Pixel(fig.content, j)]]]

Ndim(a) == Len(a.shape)

----------------------------------------------------------------------------
(* Frame.__enter__ and Frame.__exit__ *)

EnterAlwaysClears(fig, clear_figure) == Clf(fig)

\* __enter__: if self.clear_figure: figure.clf()
EnterFigure(fig, clear_figure) == IF clear_figure THEN Clf(fig) ELSE fig

ExitPrepends(fr, frame) == <<frame>> \o fr

\* __exit__: self.animated_figure.frames.append(frame)
ExitFrames(fr, frame) == Append(fr, frame)

ExitSuppresses(exception_raised) == exception_raised

\* __exit__ returns None, which is falsy: the with statement re-raises
ExitReturn(exception_raised) == FALSE

----------------------------------------------------------------------------
(* _quantize_frames *)

RECURSIVE ConcatenateFrom(_, _)
ConcatenateFrom(fr, k) ==
    IF k > Len(fr) THEN <<>> ELSE fr[k].pix \o ConcatenateFrom(fr, k + 1)

\* onp.concatenate(frames): the rows of the frames, one frame after the other
Concatenate(fr) == ConcatenateFrom(fr, 1)

ColoursOf(rows) == { rows[i][j] : i \in 1..Len(rows), j \in 1..Len(rows[1]) }

\* the colours of S in increasing order
SortedSeq(S) ==
    IF S = {} THEN <<>>
    ELSE LET top == CHOOSE x \in S : \A y \in S : y <= x
             InS(x) == x \in S
         IN SelectSeq([k \in 1..(top + 1) |-> k - 1], InS)

Dist(a, b) == IF a >= b THEN a - b ELSE b - a

\* the palette index of the entry nearest to colour c (dither=0), the lower
\* index on a tie; indices count from 1
Nearest(palette, c) ==
    IF \E k \in 1..Len(palette) : palette[k] = c
    THEN CHOOSE k \in 1..Len(palette) : palette[k] = c
    ELSE CHOOSE k \in 1..Len(palette) :
            \A l \in 1..Len(palette) :
                \/ Dist(palette[k], c) < Dist(palette[l], c)
                \/ Dist(palette[k], c) = Dist(palette[l], c) /\ k <= l

\* Image.quantize(colors, dither=0): at most `colors` representative colours
\* and, per pixel, the index of the nearest one
Quantize(rows, colors) ==
    LET all == SortedSeq(ColoursOf(rows))
        palette == IF Len(all) <= colors THEN all ELSE SubSeq(all, 1, colors)
    IN [index |-> [i \in 1..Len(rows) |->
                     [j \in 1..Len(rows[i]) |-> Nearest(palette, rows[i][j])]],
        palette |-> palette]

SplitReversed(rows, n) ==
    LET h == Len(rows) \div n
    IN [k \in 1..n |-> SubSeq(rows, (n - k) * h + 1, (n - k + 1) * h)]

\* onp.split(array, n): n parts of equal height, in order
Split(rows, n) ==
    LET h == Len(rows) \div n
    IN [k \in 1..n |-> SubSeq(rows, (k - 1) * h + 1, k * h)]

QuantizeFrames(fr) ==
    LET quantized == Quantize(Concatenate(fr), QuantColors)
    IN [frames |-> Split(quantized.index, Len(fr)),
        palette |-> quantized.palette]

----------------------------------------------------------------------------
(* _save_frames_to_gif *)

SameRowsOnly(fr) == \A k \in 1..Len(fr) : fr[k].shape[1] = fr[1].shape[1]

\* all(frame.shape == frames[0].shape for frame in frames)
AllSameShape(fr) == \A k \in 1..Len(fr) : fr[k].shape = fr[1].shape

Raise(error) == [error |-> error, quantized |-> FALSE, image |-> <<>>]

ImagesWithoutFirst(quantized_frames) == Tail(quantized_frames)

\* image, *images = ...; image.save(save_all=True, append_images=images)
GifImages(quantized_frames) ==
    <<Head(quantized_frames)>> \o Tail(quantized_frames)

SaveFramesPathFirst(fr, gif_path, duration, loop) ==
    IF ~EndsWith(gif_path, GifSuffix) THEN Raise(InvalidDestinationPath)
    ELSE IF Len(fr) = 0 THEN Raise(EmptyAnimation)
    ELSE IF Ndim(fr[1]) # 3 THEN Raise(InvalidFrameRank)
    ELSE IF ~AllSameShape(fr) THEN Raise(InconsistentFrameShape)
    ELSE LET q == QuantizeFrames(fr)
         IN [error |-> NoError, quantized |-> TRUE,
             image |-> <<[frames |-> GifImages(q.frames), palette |-> q.palette,
                          duration |-> duration, loop |-> loop]>>]

SaveFramesShapeBeforeRank(fr, gif_path, duration, loop) ==
    IF Len(fr) = 0 THEN Raise(EmptyAnimation)
    ELSE IF ~AllSameShape(fr) THEN Raise(InconsistentFrameShape)
    ELSE IF Ndim(fr[1]) # 3 THEN Raise(InvalidFrameRank)
    ELSE IF ~EndsWith(gif_path, GifSuffix) THEN Raise(InvalidDestinationPath)
    ELSE LET q == QuantizeFrames(fr)
         IN [error |-> NoError, quantized |-> TRUE,
             image |-> <<[frames |-> GifImages(q.frames), palette |-> q.palette,
                          duration |-> duration, loop |-> loop]>>]

SaveFramesToGif(fr, gif_path, duration, loop) ==
    IF Len(fr) = 0 THEN Raise(EmptyAnimation)
    ELSE IF Ndim(fr[1]) # 3 THEN Raise(InvalidFrameRank)
    ELSE IF ~AllSameShape(fr) THEN Raise(InconsistentFrameShape)
    ELSE IF ~EndsWith(gif_path, GifSuffix) THEN Raise(InvalidDestinationPath)
    ELSE LET q == QuantizeFrames(fr)
         IN [error |-> NoError, quantized |-> TRUE,
             image |-> <<[frames |-> GifImages(q.frames), palette |-> q.palette,
                          duration |-> duration, loop |-> loop]>>]

----------------------------------------------------------------------------
(* The state machine *)

NoOp == [kind |-> "init", scope |-> 0, flag |-> FALSE, path |-> <<>>, loop |-> 0]

Call(kind, scope, flag, path, loop) ==
    [kind |-> kind, scope |-> scope, flag |-> flag, path |-> path, loop |-> loop]

Returned == [error |-> NoError, quantized |-> FALSE]

\* AnimatedFigure(figure): the caller's figure and no frames
Init ==
    /\ figure \in [content : {{}}, layout : Layouts]
    /\ frames = <<>>
    /\ scopes = <<>>
    /\ files = [p \in Paths |-> <<>>]
    /\ op = NoOp
    /\ result = Returned

\* the caller draws on the figure (the body of a with block, or outside one)
Draw(m, layout) ==
    /\ figure' = [content |-> figure.content \cup {m}, layout |-> layout]
    /\ op' = Call("draw", 0, FALSE, <<>>, 0)
    /\ result' = Returned
    /\ UNCHANGED <<frames, scopes, files>>

\* AnimatedFigure.frame(clear_figure)
NewFrame(clear_figure) ==
    /\ Len(scopes) < MaxScopes
    /\ scopes' = Append(scopes, [clear_figure |-> clear_figure, entered |-> FALSE, exits |-> 0])
    /\ op' = Call("frame", Len(scopes) + 1, clear_figure, <<>>, 0)
    /\ result' = Returned
    /\ UNCHANGED <<figure, frames, files>>

\* Frame.__enter__ of scope object s, by a with statement outside the with
\* blocks of s
Enter(s) ==
    /\ s \in DOMAIN scopes
    /\ ~scopes[s].entered
    /\ Len(frames) < MaxFrames
    /\ figure' = EnterFigure(figure, scopes[s].clear_figure)
    /\ scopes' = [scopes EXCEPT ![s].entered = TRUE]
    /\ op' = Call("enter", s, scopes[s].clear_figure, <<>>, 0)
    /\ result' = Returned
    /\ UNCHANGED <<frames, files>>

\* Frame.__exit__ of scope object s; exception_raised: the with body raised
Exit(s, exception_raised) ==
    /\ s \in DOMAIN scopes
    /\ scopes[s].entered
    /\ Len(frames) < MaxFrames
    /\ frames' = ExitFrames(frames, SaveFigureToArray(figure))
    /\ scopes' = [scopes EXCEPT ![s].entered = FALSE, ![s].exits = @ + 1]
    /\ op' = Call("exit", s, exception_raised, <<>>, 0)
    /\ result' = [error |-> IF exception_raised /\ ~ExitReturn(exception_raised)
                              THEN BodyError ELSE NoError,
                  quantized |-> FALSE]
    /\ UNCHANGED <<figure, files>>

\* AnimatedFigure.save_gif(gif_path, duration, loop)
SaveGif(gif_path, duration, loop) ==
    LET saved == SaveFramesToGif(frames, gif_path, duration, loop)
    IN /\ files' = IF saved.image = <<>> THEN files
                   ELSE [files EXCEPT ![gif_path] = saved.image]
       /\ op' = Call("save", 0, FALSE, gif_path, loop)
       /\ result' = [error |-> saved.error, quantized |-> saved.quantized]
       /\ UNCHANGED <<figure, frames, scopes>>

Next ==
    \/ \E m \in Marks, layout \in Layouts : Draw(m, layout)
    \/ \E clear_figure \in BOOLEAN : NewFrame(clear_figure)
    \/ \E s \in 1..MaxScopes : Enter(s)
    \/ \E s \in 1..MaxScopes, exception_raised \in BOOLEAN : Exit(s, exception_raised)
    \/ \E gif_path \in Paths, duration \in Durations, loop \in Loops :
          SaveGif(gif_path, duration, loop)

Spec == Init /\ [][Next]_vars

----------------------------------------------------------------------------
(* _save_frames_to_gif as a function of its arguments: the frames are any  *)
(* sequence of arrays, as the function and the public attribute `frames`   *)
(* allow, and the only operation is the save.                              *)

Gray == [shape |-> <<2, 2>>, pix |-> << <<0, 1>>, <<1, 0>> >>]
Rgb == [shape |-> <<2, 2, 3>>, pix |-> << <<0, 1>>, <<2, 3>> >>]
RgbOther == [shape |-> <<2, 2, 3>>, pix |-> << <<3, 3>>, <<0, 0>> >>]
RgbWide == [shape |-> <<2, 3, 3>>, pix |-> << <<0, 1, 2>>, <<2, 1, 0>> >>]
RgbShort == [shape |-> <<1, 2, 3>>, pix |-> << <<4, 0>> >>]
Rgba == [shape |-> <<2, 2, 4>>, pix |-> << <<0, 1>>, <<2, 3>> >>]

\* one row holding one more colour than the palette has entries
Rainbow ==
    [shape |-> <<1, QuantColors + 1, 3>>,
     pix |-> << [j \in 1..(QuantColors + 1) |-> j - 1] >>]

SaveInputs == {Gray, Rgb, RgbOther, RgbWide, RgbShort, Rgba, Rainbow}

SaveInit ==
    /\ figure = [content |-> {}, layout |-> <<2, 2, 4>>]
    /\ frames \in UNION { [1..n -> SaveInputs] : n \in 0..MaxFrames }
    /\ scopes = <<>>
    /\ files = [p \in Paths |-> <<>>]
    /\ op = NoOp
    /\ result = Returned

SaveNext ==
    \E gif_path \in Paths, duration \in Durations, loop \in Loops :
        SaveGif(gif_path, duration, loop)

SaveSpec == SaveInit /\ [][SaveNext]_vars

----------------------------------------------------------------------------
(* The properties *)

\* the paths of Paths that do not end with '.gif'
NotGifPaths == {PngPath, UpperPath, GifsPath}

Rank3(fr) == \A k \in 1..Len(fr) : Len(fr[k].shape) = 3

SomeShapeDiffers(fr) == \E k \in 1..Len(fr) : fr[k].shape # fr[1].shape

\* C1: every Frame.__exit__ appends exactly one frame, the raster of the
\* figure, to the end of frames, whether or not the with body raised; when
\* it raised the failure still reaches the caller.
ExitAlwaysAppends ==
    [][op'.kind = "exit" =>
          /\ Len(frames') = Len(frames) + 1
          /\ SubSeq(frames', 1, Len(frames)) = frames
          /\ frames'[Len(frames')] = SaveFigureToArray(figure)
          /\ (op'.flag => result'.error = BodyError)
          /\ (~op'.flag => result'.error = NoError)]_vars

ExitAfterRaise ==
    /\ op.kind = "exit"
    /\ op.flag
    /\ result.error = BodyError
    /\ Len(frames) = 2

EmptySaveFails ==
    (op.kind = "save" /\ Len(frames) = 0)
    => /\ result.error = EmptyAnimation
       /\ ~result.quantized
       /\ \A p \in Paths : files[p] = <<>>

EmptySaveToPng ==
    /\ op.kind = "save"
    /\ Len(frames) = 0
    /\ op.path = PngPath
    /\ result.error = EmptyAnimation

\* C4: save fails with InconsistentFrameShape and writes nothing when a
\* captured frame's shape differs from the first frame's; the exit that
\* appended the differing frame raised nothing of its own.
ShapeMismatchFailsAtSave ==
    [][/\ (op'.kind = "save" /\ SomeShapeDiffers(frames))
          => /\ result'.error = InconsistentFrameShape
             /\ ~result'.quantized
             /\ files' = files
       /\ (op'.kind = "exit" /\ ~op'.flag /\ SomeShapeDiffers(frames'))
          => result'.error = NoError]_vars

ShapeMismatchSaved ==
    /\ op.kind = "save"
    /\ op.path = GifPath
    /\ Len(frames) = 2
    /\ frames[2].shape # frames[1].shape
    /\ result.error = InconsistentFrameShape

\* C5 as stated: save to a path that does not end with '.gif' fails with
\* InvalidDestinationPath whatever frames the buffer holds.
BadPathAlwaysInvalidDestination ==
    (op.kind = "save" /\ op.path \in NotGifPaths)
    => result.error = InvalidDestinationPath

\* C5, amended: save to a path that does not end with '.gif' always fails,
\* before quantization and without a file at that path; the error is
\* InvalidDestinationPath when the buffer holds at least one frame and all
\* frames have the first frame's rank-3 shape.
BadPathFailsBeforeOutput ==
    /\ \A p \in NotGifPaths : files[p] = <<>>
    /\ (op.kind = "save" /\ op.path \in NotGifPaths)
       => /\ result.error # NoError
          /\ ~result.quantized
          /\ (Len(frames) >= 1 /\ Rank3(frames) /\ ~SomeShapeDiffers(frames))
             => result.error = InvalidDestinationPath

UpperCaseSuffixRejected ==
    /\ op.kind = "save"
    /\ op.path = UpperPath
    /\ Len(frames) = 2
    /\ result.error = InvalidDestinationPath

\* C6: a Frame object is exited at most once, so it contributes at most one
\* frame.
ScopeSingleUse == \A s \in DOMAIN scopes : scopes[s].exits <= 1

\* C7: the content of the figure changes under the operations of the module
\* only in __enter__ of a Frame made with clear_figure = True, which empties
\* it; frame() changes neither the figure nor the frames.
OnlyClearingEnterChangesFigure ==
    [][/\ (op'.kind \in {"frame", "exit", "save"}) => figure' = figure
       /\ (op'.kind = "enter" /\ ~op'.flag) => figure' = figure
       /\ (op'.kind = "enter" /\ op'.flag)
          => figure' = [content |-> {}, layout |-> figure.layout]
       /\ (op'.kind = "frame") => frames' = frames]_vars

EnteredWithoutClearing ==
    /\ op.kind = "enter"
    /\ ~op.flag
    /\ figure.content # {}

\* C10: frames only grows at its end: an exit adds one element, nothing
\* else changes it; save leaves it as it was, so the same save made again
\* has the same outcome.
FramesAppendOnly ==
    [][/\ Len(frames') >= Len(frames)
       /\ Len(frames') <= Len(frames) + 1
       /\ SubSeq(frames', 1, Len(frames)) = frames
       /\ (op'.kind = "exit") => Len(frames') = Len(frames) + 1
       /\ (op'.kind # "exit") => frames' = frames
       /\ (op'.kind = "save")
          => LET again == SaveFramesToGif(frames', op'.path, DefaultDuration, op'.loop)
             IN /\ again.error = result'.error
                /\ again.image = IF again.error = NoError
                                 THEN files'[op'.path] ELSE <<>>]_vars

CaptureAfterSave ==
    /\ op.kind = "exit"
    /\ Len(frames) = 2
    /\ frames[1] # frames[2]
    /\ Len(files[GifPath]) = 1
    /\ Len(files[GifPath][1].frames) = 1

----------------------------------------------------------------------------
(* The properties of _save_frames_to_gif on any sequence of arrays *)

\* the error the checks give when made in the order frame count, rank of
\* the first frame, equal shapes, path suffix
FirstFailure(fr, gif_path) ==
    IF Len(fr) = 0 THEN EmptyAnimation
    ELSE IF Len(fr[1].shape) # 3 THEN InvalidFrameRank
    ELSE IF SomeShapeDiffers(fr) THEN InconsistentFrameShape
    ELSE IF gif_path \in NotGifPaths THEN InvalidDestinationPath
    ELSE NoError

\* C8: save reports the error of the first failing check in the order frame
\* count, rank of the first frame, equal shapes, path suffix; a failing save
\* quantizes nothing and writes nothing, a save that passes all four checks
\* quantizes and writes the file.
SaveChecksInOrder ==
    [][op'.kind = "save" =>
          LET first == FirstFailure(frames, op'.path)
          IN /\ result'.error = first
             /\ (first # NoError) => (~result'.quantized /\ files' = files)
             /\ (first = NoError)
                => (result'.quantized /\ Len(files'[op'.path]) = 1)]_vars

RankReportedBeforeShapeAndPath ==
    /\ op.kind = "save"
    /\ op.path = PngPath
    /\ Len(frames) = 2
    /\ Len(frames[1].shape) = 2
    /\ frames[2].shape # frames[1].shape
    /\ result.error = InvalidFrameRank

\* C9: the N frames of a successful save are quantized jointly: N index
\* maps in the order of the frames, each with its frame's rows and columns,
\* and one palette of at most 256 entries; every index names a palette entry,
\* the one nearest to the pixel's colour.
JointQuantization ==
    (op.kind = "save" /\ result.error = NoError)
    => /\ Len(files[op.path]) = 1
       /\ LET file == files[op.path][1]
          IN /\ Len(file.frames) = Len(frames)
             /\ Len(file.palette) <= 256
             /\ \A k \in 1..Len(frames) :
                   /\ Len(file.frames[k]) = frames[k].shape[1]
                   /\ \A i \in 1..frames[k].shape[1] :
                         /\ Len(file.frames[k][i]) = frames[k].shape[2]
                         /\ \A j \in 1..frames[k].shape[2] :
                               LET index == file.frames[k][i][j]
                                   colour == frames[k].pix[i][j]
                               IN /\ index \in 1..Len(file.palette)
                                  /\ \A l \in 1..Len(file.palette) :
                                        Dist(file.palette[index], colour)
                                            <= Dist(file.palette[l], colour)

QuantizedMoreColoursThanPalette ==
    /\ op.kind = "save"
    /\ result.error = NoError
    /\ Len(frames) = 2
    /\ frames[1] = Rainbow
    /\ Len(files[op.path]) = 1
    /\ Len(files[op.path][1].palette) = 256
    /\ Len(files[op.path][1].frames) = 2

====
